---- MODULE Spec2Model ----
(***************************************************************************)
(* pi-lossless-player: the network-share mount, the local file cache with  *)
(* its eviction sweep (network_handler.py, utils.py) and the library scan  *)
(* into the albums/tracks tables (music_library.py).                       *)
(*                                                                         *)
(* A path is a sequence of names (os.path.join appends).  A file's content *)
(* is a sequence of 1 GB chunks; a copy that stops early leaves a prefix.  *)
(***************************************************************************)
EXTENDS Integers, Sequences, FiniteSets, TLC

\* ---- bounds of the model ----
MaxLen == 2          \* largest remote file, in chunks of 1 GB
MaxATime == 2        \* last-access times are drawn from 1..MaxATime
MaxId == 3
MaxAlbums == 11           \* a scan is not started once a row id could pass MaxId

\* ---- config.py ----
CACHE_MAX_SIZE_GB == 2

VARIABLES
    cfg,        \* config.py: [CACHE_ENABLED |-> BOOLEAN]
    netUp,      \* environment: the server answers (a mount command succeeds)
    mounted,    \* the OS mount table lists MOUNT_POINT
    remote,     \* the files on the share: path -> content
    cache,      \* the files under CACHE_PATH: path -> [data, src, atime]
    albums,     \* rows of table albums
    tracks,     \* rows of table tracks
    dbFile,     \* a file exists at DB_PATH
    proc,       \* main.py: where the host process is, what its startup did,
                \* and the Telegram update the bot is about to handle
    last,       \* what the last operation was given, did and returned
    mpd         \* the playlist of the MPD server: the paths added to it

vars == <<cfg, netUp, mounted, remote, cache, albums, tracks, dbFile, proc, last,
          mpd>>

\* ---- the file universe ----
\* the relative paths get_file_path is asked for (the tracks of album A)
Paths == {<<"A", "1.flac">>, <<"A", "2.flac">>}
AudioFiles == Paths \cup {<<"B", "C", "1.flac">>}

\* The content of version c of a file: c chunks, each stamped c.
File(c) == [i \in 1..c |-> c]
Contents == {File(c) : c \in 1..MaxLen}

None == <<>>
CachePath(p) == <<"CACHE_PATH">> \o p
NetworkPath(p) == <<"MOUNT_POINT">> \o p

\* mutant: writing x empties the rest of the directory
Put_only(f, x, v) == [y \in {x} |-> v]

\* f with x mapped to v / with x removed (f is a function on a finite set)
Put(f, x, v) == [y \in DOMAIN f \cup {x} |-> IF y = x THEN v ELSE f[y]]
Drop(f, S) == [y \in DOMAIN f \ S |-> f[y]]
Empty == [y \in {} |-> 0]

\* The record of an operation: its name and argument, what it returned
\* (ret: a path or None; ok: a boolean result), the OS commands and remote
\* accesses it made, the cached files before it, whether a call in it raised,
\* whether it directly follows a scan that returned True with no failure.
\* tags: what TinyTag.get gave a scan for each file it read; failed: the
\* album directories whose processing raised in a scan. query, album_id: the
\* argument of a library query; found: the albums it returned. pattern: the
\* extension a listing filters by, or None; names: the names it returned.
NoOp == [op |-> "", path |-> <<>>, ret |-> None, ok |-> TRUE, log |-> <<>>,
         before |-> Empty, err |-> FALSE, max |-> 0, repeat |-> FALSE,
         tags |-> Empty, failed |-> {}, query |-> "", album_id |-> 0,
         found |-> <<>>, pattern |-> None, names |-> <<>>]

\* ---- NetworkHandler: the mount ----

\* is_mounted: "mount | grep -q MOUNT_POINT" succeeds iff the table lists it
is_mounted(m) == m

\* unmount_share on mount state m; the umount command succeeds iff umountOk.
\* Returns True whatever the umount command's result was.
unmount_share(m, umountOk) ==
    IF is_mounted(m)
    THEN [ok |-> TRUE, mounted |-> ~umountOk, log |-> <<"is_mounted", "umount">>]
    ELSE [ok |-> TRUE, mounted |-> FALSE, log |-> <<"is_mounted">>]

\* mutant: the result of the mount command is returned, the mount table is
\* not read again
mount_share_nocheck(m, up, umountOk) ==
    LET u == unmount_share(m, umountOk)
        m2 == u.mounted \/ up
    IN [ok |-> up, mounted |-> m2, log |-> u.log \o <<"mount">>]

\* mount_share: unmount, mount command (succeeds iff the server answers),
\* then the result is what the mount table says.
mount_share(m, up, umountOk) ==
    LET u == unmount_share(m, umountOk)
        m2 == u.mounted \/ up
    IN [ok |-> is_mounted(m2), mounted |-> m2,
        log |-> u.log \o <<"mount", "is_mounted">>]

\* mutant: the result of the mount attempt is dropped
ensure_mounted_true(m, up, umountOk) ==
    IF ~is_mounted(m)
    THEN LET r == mount_share(m, up, umountOk)
         IN [ok |-> TRUE, mounted |-> r.mounted, log |-> <<"is_mounted">> \o r.log]
    ELSE [ok |-> TRUE, mounted |-> m, log |-> <<"is_mounted">>]

\* mutant: an unmounted share is reported, not mounted
ensure_mounted_nomount(m, up, umountOk) ==
    [ok |-> is_mounted(m), mounted |-> m, log |-> <<"is_mounted">>]

ensure_mounted(m, up, umountOk) ==
    IF ~is_mounted(m)
    THEN LET r == mount_share(m, up, umountOk)
         IN [ok |-> r.ok, mounted |-> r.mounted, log |-> <<"is_mounted">> \o r.log]
    ELSE [ok |-> TRUE, mounted |-> m, log |-> <<"is_mounted">>]

\* os.path.exists(mount_point / p): through a live mount only
RemoteExists(m, up, p) == m /\ up /\ p \in DOMAIN remote

\* ---- NetworkHandler.get_file_path ----

\* What shutil.copy2 can do: "ok" copies the whole file; "nofile" fails before
\* the destination is created; "partial" fails after `written` chunks reached
\* the destination (written = Len(src): the data is there, copystat failed).
CopyOutcomes(src) ==
    {[kind |-> "ok", written |-> Len(src)], [kind |-> "nofile", written |-> 0]}
    \cup {[kind |-> "partial", written |-> k] : k \in 0..Len(src)}

CopyFails(c) == c.kind # "ok"

Copied(src, c, at) == [data |-> SubSeq(src, 1, c.written), src |-> src, atime |-> at]

\* mutant: the cache is never consulted
CacheHit_never(p) == FALSE

\* os.path.exists(cache_file) under CACHE_ENABLED
CacheHit(p) == p \in DOMAIN cache

\* mutant: a failed copy fails the call
CopyResult_none(p, c) == IF CopyFails(c) THEN None ELSE CachePath(p)

\* the value returned after the copy was tried: the cache path, or the
\* network file when the copy raised
CopyResult(p, c) == IF CopyFails(c) THEN NetworkPath(p) ELSE CachePath(p)

\* mutant: the network path is returned without the existence test
DirectPath_always(p, seen) == NetworkPath(p)

\* mutant: without caching the path under the cache root is returned
DirectPath_cached(p, seen) == IF seen THEN CachePath(p) ELSE None

\* without caching: the network file if it exists
DirectPath(p, seen) == IF seen THEN NetworkPath(p) ELSE None

get_file_path(p, c, at) ==
    LET em == ensure_mounted(mounted, netUp, TRUE)
        seen == RemoteExists(em.mounted, netUp, p)
        called == [NoOp EXCEPT !.op = "get_file_path", !.path = p]
    IN
    IF cfg.CACHE_ENABLED
    THEN IF CacheHit(p)
         THEN /\ last' = [called EXCEPT !.ret = CachePath(p)]
              /\ UNCHANGED <<mounted, cache>>
         ELSE IF ~em.ok
         THEN /\ last' = [called EXCEPT !.ret = None, !.log = em.log]
              /\ mounted' = em.mounted
              /\ UNCHANGED cache
         ELSE IF ~seen
         THEN /\ last' = [called EXCEPT !.ret = None, !.log = em.log \o <<"exists">>]
              /\ mounted' = em.mounted
              /\ UNCHANGED cache
         ELSE /\ mounted' = em.mounted
              /\ cache' = IF c.kind = "nofile" THEN cache
                          ELSE Put(cache, p, Copied(remote[p], c, at))
              /\ last' = [called EXCEPT !.ret = CopyResult(p, c),
                                        !.log = em.log \o <<"exists", "copy">>,
                                        !.err = CopyFails(c)]
    ELSE IF ~em.ok
         THEN /\ last' = [called EXCEPT !.ret = None, !.log = em.log]
              /\ mounted' = em.mounted
              /\ UNCHANGED cache
         ELSE /\ last' = [called EXCEPT !.ret = DirectPath(p, seen),
                                        !.log = em.log \o <<"exists">>]
              /\ mounted' = em.mounted
              /\ UNCHANGED cache

GetFilePath ==
    \E p \in Paths :
       \E c \in CopyOutcomes(IF p \in DOMAIN remote THEN remote[p] ELSE <<>>),
          at \in 1..MaxATime :
          /\ get_file_path(p, c, at)
          /\ UNCHANGED <<cfg, netUp, remote, albums, tracks, dbFile, proc, mpd>>

\* ---- utils.clean_cache ----

RECURSIVE SizeOf(_)
\* sum of os.path.getsize over the files of a cache directory, in GB
SizeOf(c) ==
    IF DOMAIN c = {} THEN 0
    ELSE LET p == CHOOSE q \in DOMAIN c : TRUE
         IN Len(c[p].data) + SizeOf(Drop(c, {p}))

\* mutant: the loop breaks at the limit itself, without the 20% margin
UnderMargin_nomargin(size, max10) == size * 10 <= max10

\* mutant: the loop breaks at 80% of the limit or below
UnderMargin_atmost(size, max10) == size * 100 <= max10 * 8

\* max_size_gb is passed in tenths of a GB, so that 2.5 is an input.
\* cache_size_gb > max_size_gb
OverLimit(size, max10) == size * 10 > max10
\* new_size < max_size_gb * 0.8
UnderMargin(size, max10) == size * 100 < max10 * 8

\* mutant: newest first
SortedByATime_newest(c) ==
    {s \in [1..Cardinality(DOMAIN c) -> DOMAIN c] :
        /\ \A i, j \in DOMAIN s : i # j => s[i] # s[j]
        /\ \A i, j \in DOMAIN s : i < j => c[s[i]].atime >= c[s[j]].atime}

\* files.sort(key=atime): the cached paths, oldest first (ties in walk order)
SortedByATime(c) ==
    {s \in [1..Cardinality(DOMAIN c) -> DOMAIN c] :
        /\ \A i, j \in DOMAIN s : i # j => s[i] # s[j]
        /\ \A i, j \in DOMAIN s : i < j => c[s[i]].atime <= c[s[j]].atime}

FirstN(s, n) == {s[i] : i \in 1..n}

\* The removal loop: the number of files removed when no call fails. The
\* size is recomputed after each removal and the loop breaks under the margin.
RemovedCount(c, files, max10) ==
    LET stops == {i \in 1..Len(files) : UnderMargin(SizeOf(Drop(c, FirstN(files, i))), max10)}
    IN IF stops = {} THEN Len(files)
       ELSE CHOOSE i \in stops : \A j \in stops : i <= j

\* mutant: a file that is in the playlist is locked and stays
Sweep_locked(max10, files, r, err) ==
    /\ files \in SortedByATime(cache)
    /\ IF OverLimit(SizeOf(cache), max10)
       THEN /\ r \in 0..RemovedCount(cache, files, max10)
            /\ ~err => r = RemovedCount(cache, files, max10)
            /\ cache' = Drop(cache, {p \in FirstN(files, r) :
                                       \A i \in DOMAIN mpd : mpd[i] # CachePath(p)})
       ELSE /\ r = 0
            /\ UNCHANGED cache

\* clean_cache(cache_path, max_size_gb). err: an os call raised; the loop had
\* removed r files by then (the except clause logs and returns).
Sweep(max10, files, r, err) ==
    /\ files \in SortedByATime(cache)
    /\ IF OverLimit(SizeOf(cache), max10)
       THEN /\ r \in 0..RemovedCount(cache, files, max10)
            /\ ~err => r = RemovedCount(cache, files, max10)
            /\ cache' = Drop(cache, FirstN(files, r))
       ELSE /\ r = 0
            /\ UNCHANGED cache

clean_cache(max10, files, r, err) ==
    /\ Sweep(max10, files, r, err)
    /\ last' = [NoOp EXCEPT !.op = "clean_cache", !.before = cache, !.err = err,
                              !.max = max10]

MaxSizes == {10 * CACHE_MAX_SIZE_GB, 25}

CleanCache ==
    \E max10 \in MaxSizes, files \in SortedByATime(cache),
       r \in 0..Cardinality(DOMAIN cache), err \in BOOLEAN :
       /\ cfg.CACHE_ENABLED
       /\ clean_cache(max10, files, r, err)
       /\ UNCHANGED <<cfg, netUp, mounted, remote, albums, tracks, dbFile, proc, mpd>>

\* ---- MusicLibrary: the scan ----

SUPPORTED_FORMATS ==
    <<".flac", ".wav", ".alac", ".ape", ".aiff", ".dsd", ".dsf", ".dff", ".wv">>

\* the extension of a name as it is written
RawExt(n) == CASE n \in {"1.flac", "2.flac"} -> ".flac"
               [] n = "3.FLAC" -> ".FLAC"
               [] n = "cover.jpg" -> ".jpg"
               [] OTHER -> ""

\* the letters of an extension in lower case
FoldCase(e) == CASE e = ".FLAC" -> ".flac"
                 [] OTHER -> e

\* mutant: the pattern is compiled without re.IGNORECASE
Ext_exact(n) == RawExt(n)

\* the extension of a name, lower-cased as re.IGNORECASE reads it
Ext(n) == FoldCase(RawExt(n))

\* dir_name.startswith('.')
StartsWithDot(n) == n \in {".Trash"}

\* the orders in which os.listdir can return the names of the universe
ListingOrders ==
    {top \o <<"C">> \o fl : top \in {<<"A", "B", ".Trash">>, <<".Trash", "B", "A">>},
                            fl \in {<<"1.flac", "2.flac", "3.FLAC", "cover.jpg">>,
                                    <<"cover.jpg", "3.FLAC", "2.flac", "1.flac">>}}

\* what a listing under the mount point sees: the share's files through a
\* live mount; os.listdir raises on a dead one and [] is returned
Listable(m, up) == IF m /\ up THEN DOMAIN remote ELSE {}

IsFile(tree, path) == path \in tree
IsDir(tree, path) ==
    \E f \in tree : Len(f) > Len(path) /\ SubSeq(f, 1, Len(path)) = path

\* list_directories(path), in listing order ls
list_directories(tree, path, ls) ==
    SelectSeq(ls, LAMBDA n : IsDir(tree, path \o <<n>>))

\* list_files(path, ".*\\<ext>$"), in listing order ls
list_files(tree, path, ext, ls) ==
    SelectSeq(ls, LAMBDA n : IsFile(tree, path \o <<n>>) /\ Ext(n) = ext)

RECURSIVE MusicFilesFrom(_, _, _, _)
\* music_files.extend(list_files(dir, pattern of ext)) for ext in SUPPORTED_FORMATS[i..]
MusicFilesFrom(tree, dir, ls, i) ==
    IF i > Len(SUPPORTED_FORMATS) THEN <<>>
    ELSE list_files(tree, dir, SUPPORTED_FORMATS[i], ls)
         \o MusicFilesFrom(tree, dir, ls, i + 1)

MusicFiles(tree, dir, ls) == MusicFilesFrom(tree, dir, ls, 1)

\* the most cursor.execute calls one album directory takes in this universe
MaxExecutes == 1 + Cardinality(Paths)

\* sqlite: the rowid given to a row inserted without one
NextRowId(table) ==
    IF table = {} THEN 1
    ELSE (CHOOSE r \in table : \A q \in table : q.id <= r.id).id + 1

\* mutant: the table is rewritten, only the new row is in it
InsertOrReplace_only(table, key, row) ==
    {[row EXCEPT !.id = NextRowId(table)]}

\* mutant: a plain INSERT, the row with the same key stays
InsertOrReplace_keep(table, key, row) ==
    table \cup {[row EXCEPT !.id = NextRowId(table)]}

\* INSERT OR REPLACE on a table whose column `key` is UNIQUE: the row with
\* the same key is deleted and the new row gets a fresh rowid
InsertOrReplace(table, key, row) ==
    {r \in table : r[key] # row[key]} \cup {[row EXCEPT !.id = NextRowId(table)]}

\* ---- the tags of a file ----

\* A tag field is <<>> (None) or <<v>>. What TinyTag.get gives for a file:
\* it raises (readable = FALSE), or a tag with each field set or not.
NoTags == [readable |-> TRUE, title |-> <<>>, artist |-> <<>>, albumartist |-> <<>>,
           album |-> <<>>, track |-> <<>>, disc |-> <<>>, duration |-> <<>>]
Unreadable == [NoTags EXCEPT !.readable = FALSE]
FullTags == [readable |-> TRUE, title |-> <<"Song">>, artist |-> <<"Band">>,
             albumartist |-> <<"Various">>, album |-> <<"LP">>,
             track |-> <<2>>, disc |-> <<2>>, duration |-> <<3>>]
ZeroTags == [NoTags EXCEPT !.title = <<"">>, !.track = <<0>>, !.disc = <<0>>,
                           !.duration = <<0>>]
NegativeTags == [NoTags EXCEPT !.artist = <<"Band">>, !.track = <<-1>>, !.disc = <<-1>>]
TagValues == {Unreadable, NoTags, FullTags, ZeroTags, NegativeTags}

\* Python's `x or d` on a text field and on a number field: None, "" and 0
\* give the default, every other value is kept
OrStr(x, d) == IF x = <<>> \/ x[1] = "" THEN d ELSE x[1]
OrInt(x, d) == IF x = <<>> \/ x[1] = 0 THEN d ELSE x[1]

\* os.path.splitext(file_name)[0] and os.path.basename(album_dir)
Stem(n) == CASE n = "1.flac" -> "1"
             [] n = "2.flac" -> "2"
             [] n = "3.FLAC" -> "3"
             [] OTHER -> n
Basename(dir) == dir[Len(dir)]

\* the album's title and artist, from the tag of its first music file
AlbumFields(tag, album_dir) ==
    IF tag.readable
    THEN [title |-> OrStr(tag.album, Basename(album_dir)),
          artist |-> OrStr(tag.albumartist, OrStr(tag.artist, "Unknown Artist"))]
    ELSE [title |-> Basename(album_dir), artist |-> "Unknown Artist"]

\* mutant: an unreadable file gets the artist of an untagged album
DeriveTrackFields_unknown(tag, file_name, album_artist) ==
    IF tag.readable
    THEN [title |-> OrStr(tag.title, Stem(file_name)),
          artist |-> OrStr(tag.artist, album_artist),
          track_number |-> OrInt(tag.track, 0),
          disc_number |-> OrInt(tag.disc, 1),
          duration |-> OrInt(tag.duration, 0)]
    ELSE [title |-> Stem(file_name), artist |-> "Unknown Artist",
          track_number |-> 0, disc_number |-> 1, duration |-> 0]

\* the fields of a track row, from the file's own tag
DeriveTrackFields(tag, file_name, album_artist) ==
    IF tag.readable
    THEN [title |-> OrStr(tag.title, Stem(file_name)),
          artist |-> OrStr(tag.artist, album_artist),
          track_number |-> OrInt(tag.track, 0),
          disc_number |-> OrInt(tag.disc, 1),
          duration |-> OrInt(tag.duration, 0)]
    ELSE [title |-> Stem(file_name), artist |-> album_artist,
          track_number |-> 0, disc_number |-> 1, duration |-> 0]

\* the names tried for the cover image, in this order
COVER_NAMES == <<"cover.jpg", "folder.jpg", "album.jpg", "front.jpg", "artwork.jpg">>

\* os.path.exists(os.path.join(MOUNT_POINT, path))
Exists(tree, path) == IsFile(tree, path) \/ IsDir(tree, path)

RECURSIVE CoverArtFrom(_, _, _)
\* the loop over COVER_NAMES[i..]: the first art_path that exists, or None
CoverArtFrom(tree, album_dir, i) ==
    IF i > Len(COVER_NAMES) THEN None
    ELSE IF Exists(tree, album_dir \o <<COVER_NAMES[i]>>)
    THEN <<album_dir \o <<COVER_NAMES[i]>> >>
    ELSE CoverArtFrom(tree, album_dir, i + 1)

RECURSIVE CoverArtLast(_, _, _)
\* mutant: the loop has no break, the last name that exists wins
CoverArtLast(tree, album_dir, i) ==
    IF i = 0 THEN None
    ELSE IF Exists(tree, album_dir \o <<COVER_NAMES[i]>>)
    THEN <<album_dir \o <<COVER_NAMES[i]>> >>
    ELSE CoverArtLast(tree, album_dir, i - 1)

CoverArt_last(tree, album_dir) == CoverArtLast(tree, album_dir, Len(COVER_NAMES))

\* the cover_art column: None (<<>>) or <<art_path>>
CoverArt(tree, album_dir) == CoverArtFrom(tree, album_dir, 1)

RECURSIVE UpsertTracks(_, _, _, _, _, _, _)
\* the track loop over files[1..n]
UpsertTracks(trk, album_id, album_dir, files, n, album_artist, tags) ==
    IF n = 0 THEN trk
    ELSE LET done == UpsertTracks(trk, album_id, album_dir, files, n - 1,
                                  album_artist, tags)
             file_path == album_dir \o <<files[n]>>
             f == DeriveTrackFields(tags[file_path], files[n], album_artist)
         IN InsertOrReplace(done, "file_path",
               [id |-> 0, album_id |-> album_id, file_path |-> file_path,
                title |-> f.title, artist |-> f.artist,
                track_number |-> f.track_number, disc_number |-> f.disc_number,
                duration |-> f.duration])

\* _process_album_directory(album_dir, cursor). music_files: what its
\* list_files calls return; stop: the number of cursor.execute calls that
\* succeed before one raises (more than the directory needs: none raises).
\* tags: what TinyTag.get gives for each file; tree: the files os.path.exists
\* sees under MOUNT_POINT. Returns the tables, the count it adds to
\* albums_found and whether it caught an exception.
process_album_directory(album_dir, music_files, db, stop, tags, tree) ==
    LET album_id == NextRowId(db.albums)
        album == AlbumFields(tags[album_dir \o <<music_files[1]>>], album_dir)
    IN
    IF music_files = <<>> THEN [db |-> db, found |-> 0, raised |-> FALSE]
    ELSE IF stop = 0 THEN [db |-> db, found |-> 0, raised |-> TRUE]
    ELSE [db |-> [albums |-> InsertOrReplace(db.albums, "directory",
                                [id |-> 0, directory |-> album_dir,
                                 title |-> album.title, artist |-> album.artist,
                                 cover_art |-> CoverArt(tree, album_dir)]),
                  tracks |-> UpsertTracks(db.tracks, album_id, album_dir, music_files,
                                IF stop - 1 < Len(music_files) THEN stop - 1
                                ELSE Len(music_files),
                                album.artist, tags)],
          found |-> IF stop > Len(music_files) THEN 1 ELSE 0,
          raised |-> stop <= Len(music_files)]

RECURSIVE AlbumDirsFrom(_, _, _, _)
\* the directories the loop over music_dirs[i..] hands to
\* _process_album_directory, in order
AlbumDirsFrom(tree, ls, music_dirs, i) ==
    IF i > Len(music_dirs) THEN <<>>
    ELSE LET dir_name == music_dirs[i]
             subdirs == list_directories(tree, <<dir_name>>, ls)
             here == IF StartsWithDot(dir_name) THEN <<>>
                     ELSE IF MusicFiles(tree, <<dir_name>>, ls) = <<>>
                     THEN [k \in 1..Len(subdirs) |-> <<dir_name, subdirs[k]>>]
                     ELSE << <<dir_name>> >>
         IN here \o AlbumDirsFrom(tree, ls, music_dirs, i + 1)

\* mutant: a directory without music files of its own is skipped
AlbumDirs_toponly(tree, ls) ==
    SelectSeq(AlbumDirsFrom(tree, ls, list_directories(tree, <<>>, ls), 1),
              LAMBDA d : Len(d) = 1)

\* mutant: the subdirectories of every top-level directory are processed too
AlbumDirs_nested(tree, ls) ==
    LET top == list_directories(tree, <<>>, ls)
        sub(k) == list_directories(tree, <<top[k]>>, ls)
    IN AlbumDirsFrom(tree, ls, top, 1)
       \o [k \in 1..Len(top) |-> IF sub(k) = <<>> THEN <<top[k]>> ELSE <<top[k], sub(k)[1]>>]

AlbumDirs(tree, ls) == AlbumDirsFrom(tree, ls, list_directories(tree, <<>>, ls), 1)

RECURSIVE ProcessAll(_, _, _, _, _, _, _)
\* the loop of scan_library over the first n album directories: dirs[i] is
\* processed with the listing files[i] and stop[i] successful executes
ProcessAll(dirs, files, stop, n, db, tags, tree) ==
    IF n = 0 THEN [db |-> db, found |-> 0, raised |-> FALSE, failed |-> {}]
    ELSE LET sofar == ProcessAll(dirs, files, stop, n - 1, db, tags, tree)
             this == process_album_directory(dirs[n], files[n], sofar.db, stop[n], tags, tree)
         IN [db |-> this.db, found |-> sofar.found + this.found,
             raised |-> sofar.raised \/ this.raised,
             failed |-> sofar.failed \cup (IF this.raised THEN {dirs[n]} ELSE {})]

\* mutant: a failure in one album directory aborts the scan
scan_library_abort(dirs, files, stop, dbOk, tags, tree) ==
    LET em == ensure_mounted(mounted, netUp, TRUE)
        called == [NoOp EXCEPT !.op = "scan_library", !.log = em.log, !.tags = tags,
                               !.repeat = (last.op = "scan_library" /\ last.ok /\ ~last.err)]
    IN
    /\ mounted' = em.mounted
    /\ IF ~em.ok
       THEN /\ last' = [called EXCEPT !.ok = FALSE]
            /\ UNCHANGED <<albums, tracks>>
       ELSE IF ~dbOk
       THEN /\ last' = [called EXCEPT !.ok = FALSE, !.err = TRUE,
                                      !.log = em.log \o <<"connect">>]
            /\ UNCHANGED <<albums, tracks>>
       ELSE \E res \in {ProcessAll(dirs, files, stop, Len(dirs),
                                   [albums |-> albums, tracks |-> tracks], tags, tree)} :
            IF res.raised
            THEN /\ last' = [called EXCEPT !.ok = FALSE, !.err = TRUE,
                                           !.failed = res.failed,
                                           !.log = em.log \o <<"connect">>]
                 /\ UNCHANGED <<albums, tracks>>
            ELSE /\ albums' = res.db.albums
                 /\ tracks' = res.db.tracks
                 /\ last' = [called EXCEPT !.ok = TRUE, !.err = FALSE,
                                           !.log = em.log \o <<"connect", "commit">>]

\* mutant: a database that cannot be opened or committed is not reported
scan_library_lenient(dirs, files, stop, dbOk, tags, tree) ==
    LET em == ensure_mounted(mounted, netUp, TRUE)
        called == [NoOp EXCEPT !.op = "scan_library", !.log = em.log, !.tags = tags,
                               !.repeat = (last.op = "scan_library" /\ last.ok /\ ~last.err)]
    IN
    /\ mounted' = em.mounted
    /\ IF ~em.ok
       THEN /\ last' = [called EXCEPT !.ok = FALSE]
            /\ UNCHANGED <<albums, tracks>>
       ELSE IF ~dbOk
       THEN /\ last' = [called EXCEPT !.ok = TRUE, !.err = TRUE,
                                      !.log = em.log \o <<"connect">>]
            /\ UNCHANGED <<albums, tracks>>
       ELSE \E res \in {ProcessAll(dirs, files, stop, Len(dirs),
                                   [albums |-> albums, tracks |-> tracks], tags, tree)} :
            /\ albums' = res.db.albums
            /\ tracks' = res.db.tracks
            /\ last' = [called EXCEPT !.ok = TRUE, !.err = res.raised,
                                      !.failed = res.failed,
                                      !.log = em.log \o <<"connect", "commit">>]

\* scan_library(). dirs, files: the album directories its listings lead to
\* and the music files listed in each; stop: per album directory, the
\* cursor.execute calls that succeed; dbOk: sqlite3.connect and commit succeed;
\* tags: what TinyTag.get gives for each listed file; tree: the files seen
\* under MOUNT_POINT
scan_library(dirs, files, stop, dbOk, tags, tree) ==
    LET em == ensure_mounted(mounted, netUp, TRUE)
        called == [NoOp EXCEPT !.op = "scan_library", !.log = em.log, !.tags = tags,
                               !.repeat = (last.op = "scan_library" /\ last.ok /\ ~last.err)]
    IN
    /\ mounted' = em.mounted
    /\ IF ~em.ok
       THEN /\ last' = [called EXCEPT !.ok = FALSE]
            /\ UNCHANGED <<albums, tracks>>
       ELSE IF ~dbOk
       THEN /\ last' = [called EXCEPT !.ok = FALSE, !.err = TRUE,
                                      !.log = em.log \o <<"connect">>]
            /\ UNCHANGED <<albums, tracks>>
       ELSE \E res \in {ProcessAll(dirs, files, stop, Len(dirs),
                                   [albums |-> albums, tracks |-> tracks], tags, tree)} :
            /\ albums' = res.db.albums
            /\ tracks' = res.db.tracks
            /\ last' = [called EXCEPT !.ok = TRUE, !.err = res.raised,
                                      !.failed = res.failed,
                                      !.log = em.log \o <<"connect", "commit">>]

\* per album directory, how many cursor.execute calls succeed: the album's
\* and one per music file are needed
StopChoices(files) ==
    {stop \in [DOMAIN files -> 0..MaxExecutes] :
        \A i \in DOMAIN files : stop[i] <= 1 + Len(files[i])}

\* the paths of the listed music files
ListedFiles(dirs, files) ==
    UNION {{dirs[i] \o <<files[i][k]>> : k \in DOMAIN files[i]} : i \in DOMAIN dirs}

\* a scan_library call; faults: whether database calls may raise in it;
\* tagset: the tags the files may carry
ScanCall(faults, tagset) ==
    \E ls \in ListingOrders, dbOk \in {TRUE, ~faults} :
       \E tree \in {Listable(ensure_mounted(mounted, netUp, TRUE).mounted, netUp)} :
          \E dirs \in {AlbumDirs(tree, ls)} :
             \E files \in {[i \in DOMAIN dirs |-> MusicFiles(tree, dirs[i], ls)]} :
                \E stop \in StopChoices(files), tags \in [ListedFiles(dirs, files) -> tagset] :
                   /\ (~dbOk \/ ~faults) => \A i \in DOMAIN stop : stop[i] = 1 + Len(files[i])
                   /\ scan_library(dirs, files, stop, dbOk, tags, tree)
                   /\ \A r \in albums' \cup tracks' : r.id <= MaxId

Scan(faults, tagset) ==
    /\ ScanCall(faults, tagset)
    /\ UNCHANGED <<cfg, netUp, remote, cache, dbFile, proc, mpd>>

\* a scan_library call over untagged files
ScanLibrary == Scan(TRUE, {NoTags})

\* a scan_library call in which no database call raises
ScanLibraryNoFault == Scan(FALSE, {NoTags})

\* a scan_library call over files of every kind of tag, no database call raising
ScanTagged == Scan(FALSE, TagValues)

\* ---- the environment ----

EnvDone == [NoOp EXCEPT !.op = "env"]

\* somebody writes or deletes a file on the server
RemoteWrite(p, content) ==
    /\ remote' = Put(remote, p, content)
    /\ last' = EnvDone
    /\ UNCHANGED <<cfg, netUp, mounted, cache, albums, tracks, dbFile, proc, mpd>>

RemoteDelete(p) ==
    /\ p \in DOMAIN remote
    /\ remote' = Drop(remote, {p})
    /\ last' = EnvDone
    /\ UNCHANGED <<cfg, netUp, mounted, cache, albums, tracks, dbFile, proc, mpd>>

\* the server becomes (un)reachable; a mounted share stays in the mount table
NetworkChange ==
    /\ netUp' = ~netUp
    /\ last' = EnvDone
    /\ UNCHANGED <<cfg, mounted, remote, cache, albums, tracks, dbFile, proc, mpd>>

\* the share is unmounted from outside (umount, reboot)
MountLost ==
    /\ mounted
    /\ mounted' = FALSE
    /\ last' = EnvDone
    /\ UNCHANGED <<cfg, netUp, remote, cache, albums, tracks, dbFile, proc, mpd>>

\* ---- specification of the mount and the cache ----

InitDone == [NoOp EXCEPT !.op = "init"]

\* main.py past setup: the bot is built and the maintenance loop runs
Running == [pc |-> "loop", bot |-> TRUE, noDb |-> FALSE, scans |-> 0,
            update |-> <<>>]

\* After NetworkHandler.__init__: the cache directory exists and is empty,
\* and ensure_mounted has run, so a reachable server is mounted.
Init ==
    /\ cfg \in [CACHE_ENABLED : BOOLEAN]
    /\ netUp \in BOOLEAN
    /\ mounted \in BOOLEAN
    /\ netUp => mounted
    /\ remote = Empty
    /\ cache = Empty
    /\ albums = {}
    /\ tracks = {}
    /\ dbFile = TRUE
    /\ proc = Running
    /\ last = InitDone
    /\ mpd = <<>>

Next ==
    \/ GetFilePath
    \/ CleanCache
    \/ \E p \in Paths, content \in Contents : RemoteWrite(p, content)
    \/ \E p \in Paths : RemoteDelete(p)
    \/ NetworkChange
    \/ MountLost

Spec == Init /\ [][Next]_vars

\* ---- specification of the library scan ----

\* After MusicLibrary.__init__ on a fresh database: both tables are empty.
InitScan ==
    /\ cfg = [CACHE_ENABLED |-> TRUE]
    /\ netUp \in BOOLEAN
    /\ mounted \in BOOLEAN
    /\ netUp => mounted
    /\ remote = Empty
    /\ cache = Empty
    /\ albums = {}
    /\ tracks = {}
    /\ dbFile = TRUE
    /\ proc = Running
    /\ last = InitDone
    /\ mpd = <<>>

NextScan ==
    \/ ScanLibrary
    \/ \E p \in AudioFiles : RemoteWrite(p, File(1))
    \/ \E p \in AudioFiles : RemoteDelete(p)
    \/ NetworkChange
    \/ MountLost

SpecScan == InitScan /\ [][NextScan]_vars

\* the same with a database that never fails
NextScanNoFault ==
    \/ ScanLibraryNoFault
    \/ \E p \in AudioFiles : RemoteWrite(p, File(1))
    \/ \E p \in AudioFiles : RemoteDelete(p)
    \/ NetworkChange
    \/ MountLost

SpecScanNoFault == InitScan /\ [][NextScanNoFault]_vars

\* ---- MusicLibrary.search_albums, get_album_by_id ----

\* the characters of the strings that titles, artists and queries are made of
Chars(s) ==
    CASE s = "" -> <<>>
      [] s = "a" -> <<"a">>
      [] s = "b" -> <<"b">>
      [] s = "B" -> <<"B">>
      [] s = "x" -> <<"x">>
      [] s = "_" -> <<"_">>
      [] s = "%" -> <<"%">>
      [] s = "ab" -> <<"a", "b">>
      [] s = "AB" -> <<"A", "B">>
      [] s = "a_b" -> <<"a", "_", "b">>
      [] s = "1" -> <<"1">>
      [] s = "2" -> <<"2">>
      [] s = "A" -> <<"A">>
      [] s = "C" -> <<"C">>
      [] s = "Unknown Artist" -> <<"U", "n", "k", "n", "o", "w", "n", " ",
                                   "A", "r", "t", "i", "s", "t">>

\* the byte of a character
Code(c) ==
    CASE c = "%" -> 37
      [] c = "1" -> 49
      [] c = "2" -> 50
      [] c = "A" -> 65
      [] c = "B" -> 66
      [] c = "C" -> 67
      [] c = "_" -> 95
      [] c = "a" -> 97
      [] c = "b" -> 98
      [] c = "x" -> 120

\* sqlite folds the ASCII upper-case letters for LIKE
Lower(c) ==
    CASE c = "A" -> "a"
      [] c = "B" -> "b"
      [] OTHER -> c

RECURSIVE Like(_, _)
\* sqlite: txt LIKE pat, with no ESCAPE clause: % stands for any sequence of
\* characters, _ for any one character, any other character for itself in
\* either case
Like(pat, txt) ==
    IF pat = <<>> THEN txt = <<>>
    ELSE IF Head(pat) = "%"
    THEN Like(Tail(pat), txt) \/ (txt # <<>> /\ Like(pat, Tail(txt)))
    ELSE /\ txt # <<>>
         /\ Head(pat) = "_" \/ Lower(Head(pat)) = Lower(Head(txt))
         /\ Like(Tail(pat), Tail(txt))

\* the bound parameter f"%{query}%"
Pattern(query) == <<"%">> \o Chars(query) \o <<"%">>

\* WHERE title LIKE ? OR artist LIKE ?
Matching(query) ==
    {a \in albums : \/ Like(Pattern(query), Chars(a.title))
                    \/ Like(Pattern(query), Chars(a.artist))}

RECURSIVE SeqLess(_, _)
\* sqlite's BINARY collation, the default of a TEXT column: memcmp
SeqLess(a, b) ==
    IF a = <<>> THEN b # <<>>
    ELSE IF b = <<>> THEN FALSE
    ELSE IF Code(Head(a)) # Code(Head(b)) THEN Code(Head(a)) < Code(Head(b))
    ELSE SeqLess(Tail(a), Tail(b))

StrLess(s, t) == SeqLess(Chars(s), Chars(t))

\* LIMIT 10
LIMIT == 10

\* ORDER BY title. sqlite leaves the order of rows with equal keys open:
\* byId says whether they come out by ascending or by descending rowid.
AlbumBefore(a, b, byId) ==
    \/ StrLess(a.title, b.title)
    \/ a.title = b.title /\ (IF byId THEN a.id <= b.id ELSE a.id >= b.id)

RECURSIVE OrderAlbums(_, _)
OrderAlbums(S, byId) ==
    IF S = {} THEN <<>>
    ELSE LET r == CHOOSE x \in S : \A y \in S : AlbumBefore(x, y, byId)
         IN <<r>> \o OrderAlbums(S \ {r}, byId)

\* mutant: the tracks are ordered by track number before the disc number
TrackBefore_tracknumber(a, b, byId) ==
    \/ a.track_number < b.track_number
    \/ /\ a.track_number = b.track_number
       /\ \/ a.disc_number < b.disc_number
          \/ /\ a.disc_number = b.disc_number
             /\ \/ StrLess(a.title, b.title)
                \/ a.title = b.title /\ (IF byId THEN a.id <= b.id ELSE a.id >= b.id)

\* ORDER BY disc_number, track_number, title
TrackBefore(a, b, byId) ==
    \/ a.disc_number < b.disc_number
    \/ /\ a.disc_number = b.disc_number
       /\ \/ a.track_number < b.track_number
          \/ /\ a.track_number = b.track_number
             /\ \/ StrLess(a.title, b.title)
                \/ a.title = b.title /\ (IF byId THEN a.id <= b.id ELSE a.id >= b.id)

RECURSIVE OrderTracks(_, _)
OrderTracks(S, byId) ==
    IF S = {} THEN <<>>
    ELSE LET r == CHOOSE x \in S : \A y \in S : TrackBefore(x, y, byId)
         IN <<r>> \o OrderTracks(S \ {r}, byId)

\* the dictionary built from a track row
TrackDict(t) ==
    [title |-> t.title, artist |-> t.artist, track_number |-> t.track_number,
     disc_number |-> t.disc_number, duration |-> t.duration,
     file_path |-> t.file_path]

\* the dictionary built from an album row and the rows of
\* SELECT ... FROM tracks WHERE album_id = ? ORDER BY ...
AlbumDict(a, byId) ==
    LET rows == OrderTracks({t \in tracks : t.album_id = a.id}, byId)
    IN [id |-> a.id, title |-> a.title, artist |-> a.artist,
        directory |-> a.directory, cover_art |-> a.cover_art,
        tracks |-> [i \in DOMAIN rows |-> TrackDict(rows[i])]]

\* search_albums(query). dbOk: no sqlite call raises in it
search_albums(query, byId, dbOk) ==
    LET called == [NoOp EXCEPT !.op = "search_albums", !.query = query]
    IN IF ~dbOk THEN last' = [called EXCEPT !.err = TRUE]
       ELSE \E rows \in {OrderAlbums(Matching(query), byId)} :
               \E n \in {IF Len(rows) < LIMIT THEN Len(rows) ELSE LIMIT} :
                  last' = [called EXCEPT
                             !.found = [i \in 1..n |-> AlbumDict(rows[i], byId)]]

\* get_album_by_id(album_id): found is <<album>>, or <<>> for None
get_album_by_id(album_id, byId, dbOk) ==
    LET called == [NoOp EXCEPT !.op = "get_album_by_id", !.album_id = album_id]
        rows == {a \in albums : a.id = album_id}
    IN IF ~dbOk THEN last' = [called EXCEPT !.err = TRUE]
       ELSE IF rows = {} THEN last' = called
       ELSE last' = [called EXCEPT
                       !.found = <<AlbumDict(CHOOSE a \in rows : TRUE, byId)>>]

\* the queries that are made
Queries == {"", "b", "AB", "x", "_", "%"}

SearchAlbums ==
    \E query \in Queries, byId \in BOOLEAN, dbOk \in BOOLEAN :
       /\ search_albums(query, byId, dbOk)
       /\ UNCHANGED <<cfg, netUp, mounted, remote, cache, albums, tracks, dbFile, proc, mpd>>

GetAlbumById ==
    \E album_id \in 0..2, byId \in BOOLEAN, dbOk \in BOOLEAN :
       /\ get_album_by_id(album_id, byId, dbOk)
       /\ UNCHANGED <<cfg, netUp, mounted, remote, cache, albums, tracks, dbFile, proc, mpd>>

\* ---- NetworkHandler.list_directories, list_files ----

\* os.listdir(MOUNT_POINT / path) raises: the mount is dead, or there is no
\* directory at path (the mount point itself is one)
ListdirRaises(m, up, path) ==
    ~(m /\ up) \/ (path # <<>> /\ ~IsDir(Listable(m, up), path))

\* list_directories(path) (pattern = <<"dirs">>) and list_files(path,
\* filter_pattern), filter_pattern None or the pattern of an extension.
\* ioOk: os.listdir, isdir and isfile meet no I/O error.
Listing(op, path, pattern, ls, ioOk) ==
    LET em == ensure_mounted(mounted, netUp, TRUE)
        tree == Listable(em.mounted, netUp)
        called == [NoOp EXCEPT !.op = op, !.path = path, !.pattern = pattern,
                               !.log = em.log]
        raises == ListdirRaises(em.mounted, netUp, path) \/ ~ioOk
    IN /\ mounted' = em.mounted
       /\ IF ~em.ok THEN last' = [called EXCEPT !.ok = FALSE]
          ELSE IF raises THEN last' = [called EXCEPT !.err = TRUE]
          ELSE IF op = "list_directories"
          THEN last' = [called EXCEPT !.names = list_directories(tree, path, ls)]
          ELSE IF pattern = None
          THEN last' = [called EXCEPT
                          !.names = SelectSeq(ls, LAMBDA n : IsFile(tree, path \o <<n>>))]
          ELSE last' = [called EXCEPT !.names = list_files(tree, path, pattern[1], ls)]

\* the directories that are listed: the root, directories, a file, nothing
ListedDirs == {<<>>, <<"A">>, <<"B">>, <<"A", "1.flac">>, <<".Trash">>}

ListDirectories ==
    \E path \in ListedDirs, ls \in ListingOrders, ioOk \in BOOLEAN :
       /\ Listing("list_directories", path, None, ls, ioOk)
       /\ UNCHANGED <<cfg, netUp, remote, cache, albums, tracks, dbFile, proc, mpd>>

ListFiles ==
    \E path \in ListedDirs, ls \in ListingOrders, ioOk \in BOOLEAN,
       pattern \in {None, <<".flac">>, <<".wav">>} :
       /\ Listing("list_files", path, pattern, ls, ioOk)
       /\ UNCHANGED <<cfg, netUp, remote, cache, albums, tracks, dbFile, proc, mpd>>

\* ---- specification of the listings ----

ListFilesUniverse ==
    {<<"A", "1.flac">>, <<"A", "3.FLAC">>, <<"A", "cover.jpg">>,
     <<"A", "C", "1.flac">>, <<"B", "C", "1.flac">>}

InitList ==
    /\ cfg = [CACHE_ENABLED |-> TRUE]
    /\ netUp \in BOOLEAN
    /\ mounted \in BOOLEAN
    /\ netUp => mounted
    /\ remote \in {[p \in S |-> File(1)] : S \in SUBSET ListFilesUniverse}
    /\ cache = Empty
    /\ albums = {}
    /\ tracks = {}
    /\ dbFile = TRUE
    /\ proc = Running
    /\ last = InitDone
    /\ mpd = <<>>

NextList ==
    \/ ListDirectories
    \/ ListFiles
    \/ NetworkChange
    \/ MountLost

SpecList == InitList /\ [][NextList]_vars

\* ---- specification of the library queries ----

\* the top-level album directories of the library, the titles their tags
\* give, and what the tags of two tracks give as (disc, track, title)
DirNames == <<"d01", "d02", "d03", "d04", "d05", "d06", "d07", "d08", "d09",
              "d10", "d11", "d12", "d13">>
SearchTitles == <<"ab", "AB", "a_b", "b", "B">>
TrackKeys == {<<1, 2, "a">>, <<2, 1, "a">>, <<1, 2, "B">>}
\* the sizes of the library: none, few, as many as a search returns, more
LibrarySizes == {0, 2, LIMIT, MaxAlbums}

\* the album rows of a scanned library of n albums; s spreads the titles
LibraryAlbums(n, s) ==
    {[id |-> i, directory |-> <<DirNames[i]>>,
      title |-> SearchTitles[((i * s) % Len(SearchTitles)) + 1],
      artist |-> IF i % 2 = 0 THEN "x" ELSE "B", cover_art |-> None] : i \in 1..n}

\* the track rows: two tracks of album 1 with keys k1 and k2, one of album 2
LibraryTracks(n, k1, k2) ==
    {t \in {[id |-> 1, album_id |-> 1, file_path |-> <<DirNames[1], "1.flac">>,
             title |-> k1[3], artist |-> "B", track_number |-> k1[2],
             disc_number |-> k1[1], duration |-> 0],
            [id |-> 2, album_id |-> 1, file_path |-> <<DirNames[1], "2.flac">>,
             title |-> k2[3], artist |-> "B", track_number |-> k2[2],
             disc_number |-> k2[1], duration |-> 0],
            [id |-> 3, album_id |-> 2, file_path |-> <<DirNames[2], "1.flac">>,
             title |-> "a", artist |-> "x", track_number |-> 0,
             disc_number |-> 1, duration |-> 0]} : t.album_id <= n}

InitSearch ==
    /\ cfg = [CACHE_ENABLED |-> TRUE]
    /\ netUp = TRUE
    /\ mounted = TRUE
    /\ remote = Empty
    /\ cache = Empty
    /\ \E n \in LibrarySizes, s \in 1..2, k1 \in TrackKeys, k2 \in TrackKeys :
          /\ n <= Len(DirNames)
          /\ albums = LibraryAlbums(n, s)
          /\ tracks = LibraryTracks(n, k1, k2)
    /\ dbFile = TRUE
    /\ proc = Running
    /\ last = InitDone
    /\ mpd = <<>>

NextSearch ==
    \/ SearchAlbums
    \/ GetAlbumById

SpecSearch == InitSearch /\ [][NextSearch]_vars

\* ---- specification of the queries between scans of one tree ----

\* the share holds some of the audio files and nobody changes it
InitRescan ==
    /\ cfg = [CACHE_ENABLED |-> TRUE]
    /\ netUp = TRUE
    /\ mounted = TRUE
    /\ remote \in {[p \in S |-> File(1)] : S \in SUBSET AudioFiles}
    /\ cache = Empty
    /\ albums = {}
    /\ tracks = {}
    /\ dbFile = TRUE
    /\ proc = Running
    /\ last = InitDone
    /\ mpd = <<>>

NextRescan ==
    \/ ScanLibraryNoFault
    \/ SearchAlbums
    \/ GetAlbumById
    \/ NetworkChange
    \/ MountLost

SpecRescan == InitRescan /\ [][NextRescan]_vars

\* ---- specification of the scan over albums with cover images ----

\* album A with one track and three of the cover names
CoverFiles ==
    {<<"A", "1.flac">>, <<"A", "cover.jpg">>, <<"A", "folder.jpg">>,
     <<"A", "artwork.jpg">>}

InitCover ==
    /\ cfg = [CACHE_ENABLED |-> TRUE]
    /\ netUp = TRUE
    /\ mounted = TRUE
    /\ remote \in {[p \in S |-> File(1)] : S \in SUBSET CoverFiles}
    /\ cache = Empty
    /\ albums = {}
    /\ tracks = {}
    /\ dbFile = TRUE
    /\ proc = Running
    /\ last = InitDone
    /\ mpd = <<>>

NextCover ==
    \/ ScanLibraryNoFault
    \/ \E p \in CoverFiles : RemoteWrite(p, File(1))
    \/ \E p \in CoverFiles : RemoteDelete(p)
    \/ NetworkChange
    \/ MountLost

SpecCover == InitCover /\ [][NextCover]_vars

\* ---- specification of the scan over two-level trees ----

\* an album directory with a nested directory, a container of two album
\* directories, one of them with a directory nested deeper, a hidden directory
TreeFiles ==
    {<<"A", "1.flac">>, <<"A", "C", "1.flac">>,
     <<"B", "A", "1.flac">>, <<"B", "C", "1.flac">>, <<"B", "C", "C", "1.flac">>,
     <<".Trash", "1.flac">>}

\* a fresh database and any tree of these files on the share
InitTree ==
    /\ cfg = [CACHE_ENABLED |-> TRUE]
    /\ netUp \in BOOLEAN
    /\ mounted \in BOOLEAN
    /\ netUp => mounted
    /\ remote \in {[p \in S |-> File(1)] : S \in SUBSET TreeFiles}
    /\ cache = Empty
    /\ albums = {}
    /\ tracks = {}
    /\ dbFile = TRUE
    /\ proc = Running
    /\ last = InitDone
    /\ mpd = <<>>

NextTree ==
    \/ ScanLibraryNoFault
    \/ NetworkChange
    \/ MountLost

SpecTree == InitTree /\ [][NextTree]_vars

\* ---- specification of the scan over tagged files ----

InitTags ==
    /\ cfg = [CACHE_ENABLED |-> TRUE]
    /\ netUp \in BOOLEAN
    /\ mounted \in BOOLEAN
    /\ netUp => mounted
    /\ remote \in {[p \in S |-> File(1)] : S \in SUBSET Paths}
    /\ cache = Empty
    /\ albums = {}
    /\ tracks = {}
    /\ dbFile = TRUE
    /\ proc = Running
    /\ last = InitDone
    /\ mpd = <<>>

NextTags ==
    \/ ScanTagged
    \/ NetworkChange
    \/ MountLost

SpecTags == InitTags /\ [][NextTags]_vars

\* ---- specification of get_file_path without caching ----

\* the files an earlier run with CACHE_ENABLED left under CACHE_PATH
Leftovers ==
    {[p \in S |-> [data |-> File(1), src |-> File(1), atime |-> 1]] : S \in SUBSET Paths}

\* After NetworkHandler.__init__ with CACHE_ENABLED = False: the cache
\* directory is not touched, whatever it holds stays there.
InitDirect ==
    /\ cfg = [CACHE_ENABLED |-> FALSE]
    /\ netUp \in BOOLEAN
    /\ mounted \in BOOLEAN
    /\ netUp => mounted
    /\ remote = Empty
    /\ cache \in Leftovers
    /\ albums = {}
    /\ tracks = {}
    /\ dbFile = TRUE
    /\ proc = Running
    /\ last = InitDone
    /\ mpd = <<>>

NextDirect ==
    \/ GetFilePath
    \/ \E p \in Paths, content \in Contents : RemoteWrite(p, content)
    \/ \E p \in Paths : RemoteDelete(p)
    \/ NetworkChange
    \/ MountLost

SpecDirect == InitDirect /\ [][NextDirect]_vars

\* ---- main.py: the host process ----

\* the process as it starts; noDb: no file was at DB_PATH then
Starting(noDb) == [pc |-> "start", bot |-> FALSE, noDb |-> noDb, scans |-> 0,
                   update |-> <<>>]

\* MusicLibrary.init_db: sqlite3.connect creates the file at DB_PATH; when
\* makedirs or connect raises, the error is logged and nothing is created
init_db(exists, dbOk) == exists \/ dbOk

\* LosslessAudioPlayer.__init__: NetworkHandler() tries the mount and drops
\* the result, MusicLibrary() runs init_db
Construct ==
    \E dbOk \in BOOLEAN :
       LET em == ensure_mounted(mounted, netUp, TRUE)
       IN /\ proc.pc = "start"
          /\ mounted' = em.mounted
          /\ dbFile' = init_db(dbFile, dbOk)
          /\ proc' = [proc EXCEPT !.pc = "constructed"]
          /\ last' = [NoOp EXCEPT !.op = "__init__", !.ok = em.ok, !.log = em.log]
          /\ UNCHANGED <<cfg, netUp, remote, cache, albums, tracks, mpd>>

\* run() up to the maintenance loop: setup() (the mount check, then a scan
\* when no file is at DB_PATH), a failed setup ends the process; then
\* telegram_bot.start(), which keeps a bot object iff the builder succeeded
Setup ==
    \E botOk \in BOOLEAN :
       LET em == ensure_mounted(mounted, netUp, TRUE)
       IN /\ proc.pc = "constructed"
          /\ IF ~em.ok
             THEN /\ mounted' = em.mounted
                  /\ last' = [NoOp EXCEPT !.op = "setup", !.ok = FALSE, !.log = em.log]
                  /\ proc' = [proc EXCEPT !.pc = "exited"]
                  /\ UNCHANGED <<albums, tracks, dbFile>>
             ELSE IF dbFile
             THEN /\ mounted' = em.mounted
                  /\ last' = [NoOp EXCEPT !.op = "setup", !.ok = TRUE, !.log = em.log]
                  /\ proc' = [proc EXCEPT !.pc = "loop", !.bot = botOk]
                  /\ UNCHANGED <<albums, tracks, dbFile>>
             ELSE /\ ScanCall(TRUE, {NoTags})
                  /\ dbFile' = last'.ok
                  /\ proc' = [proc EXCEPT !.pc = "loop", !.bot = botOk, !.scans = @ + 1]
          /\ UNCHANGED <<cfg, netUp, remote, cache, mpd>>

\* mutant: the loop sweeps the cache and leaves the mount alone
Maintain_sweeponly ==
    \E files \in SortedByATime(cache), r \in 0..Cardinality(DOMAIN cache), err \in BOOLEAN :
       /\ proc.pc = "loop"
       /\ IF cfg.CACHE_ENABLED
          THEN Sweep(10 * CACHE_MAX_SIZE_GB, files, r, err)
          ELSE r = 0 /\ ~err /\ UNCHANGED cache
       /\ last' = [NoOp EXCEPT !.op = "maintain", !.log = <<"is_mounted">>,
                                 !.before = cache, !.err = err,
                                 !.max = 10 * CACHE_MAX_SIZE_GB]
       /\ UNCHANGED <<cfg, netUp, mounted, remote, albums, tracks, dbFile, proc, mpd>>

\* one iteration of the maintenance loop: clean_cache when caching is
\* enabled, then ensure_mounted (the result is dropped)
Maintain ==
    \E files \in SortedByATime(cache), r \in 0..Cardinality(DOMAIN cache), err \in BOOLEAN :
       LET em == ensure_mounted(mounted, netUp, TRUE)
       IN /\ proc.pc = "loop"
          /\ IF cfg.CACHE_ENABLED
             THEN Sweep(10 * CACHE_MAX_SIZE_GB, files, r, err)
             ELSE r = 0 /\ ~err /\ UNCHANGED cache
          /\ mounted' = em.mounted
          /\ last' = [NoOp EXCEPT !.op = "maintain", !.ok = em.ok, !.log = em.log,
                                    !.before = cache, !.err = err,
                                    !.max = 10 * CACHE_MAX_SIZE_GB]
          /\ UNCHANGED <<cfg, netUp, remote, albums, tracks, dbFile, proc, mpd>>

\* the loop ends and cleanup() runs inside the event loop: telegram_bot.stop()
\* calls asyncio.run, which raises there when a bot object exists; otherwise
\* audio_player.disconnect() (catches its errors), then unmount_share()
Shutdown ==
    \E umountOk \in BOOLEAN :
       LET u == unmount_share(mounted, umountOk)
       IN /\ proc.pc = "loop"
          /\ proc' = [proc EXCEPT !.pc = "exited"]
          /\ IF proc.bot
             THEN /\ last' = [NoOp EXCEPT !.op = "cleanup", !.err = TRUE,
                                            !.log = <<"stop">>]
                  /\ UNCHANGED mounted
             ELSE /\ mounted' = u.mounted
                  /\ last' = [NoOp EXCEPT !.op = "cleanup", !.ok = u.ok,
                                            !.log = <<"stop", "disconnect">> \o u.log]
          /\ UNCHANGED <<cfg, netUp, remote, cache, albums, tracks, dbFile, mpd>>

\* Before the process starts: the share may be listed from an earlier run,
\* the database file may exist (with empty tables), the cache is empty.
InitMain ==
    /\ cfg \in [CACHE_ENABLED : BOOLEAN]
    /\ netUp \in BOOLEAN
    /\ mounted \in BOOLEAN
    /\ remote \in {Empty, [p \in {<<"A", "1.flac">>} |-> File(1)]}
    /\ cache = Empty
    /\ albums = {}
    /\ tracks = {}
    /\ dbFile \in BOOLEAN
    /\ proc = Starting(~dbFile)
    /\ last = InitDone
    /\ mpd = <<>>

NextMain ==
    \/ Construct
    \/ Setup
    \/ Maintain
    \/ Shutdown
    \/ NetworkChange
    \/ MountLost

SpecMain == InitMain /\ [][NextMain]_vars

\* ---- audio_player.py: playback ----

\* play_album(album) for an album of one track at path p. connected: MPD
\* answers. The playlist is cleared and the path get_file_path returns, if
\* any, is added to it.
PlayAlbum ==
    \E p \in Paths, connected \in BOOLEAN :
       \E c \in CopyOutcomes(IF p \in DOMAIN remote THEN remote[p] ELSE <<>>),
          at \in 1..MaxATime :
          /\ proc.pc = "loop"
          /\ IF ~connected
             THEN /\ c.kind = "nofile" /\ at = 1
                  /\ last' = [NoOp EXCEPT !.op = "play_album", !.path = p, !.ok = FALSE]
                  /\ UNCHANGED <<mounted, cache, mpd>>
             ELSE /\ get_file_path(p, c, at)
                  /\ mpd' = IF last'.ret = None THEN <<>> ELSE <<last'.ret>>
          /\ UNCHANGED <<cfg, netUp, remote, albums, tracks, dbFile, proc>>

\* the file at a path of the playlist can be opened
Readable(h) ==
    \E p \in Paths :
       \/ (h = CachePath(p) /\ p \in DOMAIN cache)
       \/ (h = NetworkPath(p) /\ RemoteExists(mounted, netUp, p))

\* the MPD server opens the next file of its playlist
MpdRead ==
    /\ mpd # <<>>
    /\ mpd' = Tail(mpd)
    /\ last' = [NoOp EXCEPT !.op = "mpd_read", !.ret = Head(mpd), !.ok = Readable(Head(mpd))]
    /\ UNCHANGED <<cfg, netUp, mounted, remote, cache, albums, tracks, dbFile, proc>>

\* ---- specification of playback next to the maintenance loop ----

\* the process is in its loop, the two tracks are on the share
InitPlay ==
    /\ cfg \in [CACHE_ENABLED : BOOLEAN]
    /\ netUp \in BOOLEAN
    /\ mounted \in BOOLEAN
    /\ netUp => mounted
    /\ remote = [p \in Paths |-> File(MaxLen)]
    /\ cache = Empty
    /\ albums = {}
    /\ tracks = {}
    /\ dbFile = TRUE
    /\ proc = Running
    /\ last = InitDone
    /\ mpd = <<>>

NextPlay ==
    \/ PlayAlbum
    \/ MpdRead
    \/ Maintain
    \/ Shutdown
    \/ NetworkChange
    \/ MountLost

SpecPlay == InitPlay /\ [][NextPlay]_vars

\* the loop body runs again after each sleep for as long as the process is
\* in the loop
SpecPlayFair == InitPlay /\ [][NextPlay]_vars /\ WF_vars(Maintain)

\* ---- telegram_bot.py: the handlers ----

\* the Telegram users that write to the bot
Users == {1, 2}

\* the commands that only answer, and those that call the AudioPlayer
ReplyCommands == {"start", "help"}
PlayerCommands == {"play", "pause", "stop", "next", "prev", "volume", "status"}

\* the updates: a command, a text message (an album search), a callback of
\* an inline button ("album:<id>" or "play:<id>")
Updates ==
    {[user |-> u, kind |-> k, text |-> "", album_id |-> 0] :
        u \in Users, k \in ReplyCommands \cup PlayerCommands \cup {"scan"}}
    \cup {[user |-> u, kind |-> "message", text |-> q, album_id |-> 0] :
             u \in Users, q \in {"", "A"}}
    \cup {[user |-> u, kind |-> k, text |-> "", album_id |-> i] :
             u \in Users, k \in {"album", "play_album"}, i \in 1..2}

\* mutant: nobody is turned away
is_authorized_all(user_id) == TRUE

\* _is_authorized(user_id)
is_authorized(user_id) ==
    IF cfg.AUTHORIZED_USERS = {} THEN TRUE
    ELSE user_id \in cfg.AUTHORIZED_USERS

\* an update arrives and is dispatched to its handler
Receive ==
    \E u \in Updates :
       /\ proc.pc = "loop" /\ proc.bot /\ proc.update = <<>>
       /\ proc' = [proc EXCEPT !.update = <<u>>]
       /\ last' = [NoOp EXCEPT !.op = "update"]
       /\ UNCHANGED <<cfg, netUp, mounted, remote, cache, albums, tracks, dbFile, mpd>>

\* the handler of the update runs: cmd_*, handle_message or handle_callback.
\* An album that is played has at most one track here.
Handle ==
    \E byId \in BOOLEAN, dbOk \in BOOLEAN, connected \in BOOLEAN, at \in 1..MaxATime :
       \E u \in {proc.update[i] : i \in DOMAIN proc.update} :
          \E rows \in {{t \in tracks : \E a \in albums :
                                        a.id = u.album_id /\ t.album_id = a.id}} :
             /\ proc' = [proc EXCEPT !.update = <<>>]
             /\ UNCHANGED <<cfg, netUp, remote, dbFile>>
             /\ IF ~is_authorized(u.user)
                THEN /\ last' = [NoOp EXCEPT !.op = "unauthorized"]
                     /\ UNCHANGED <<mounted, cache, albums, tracks, mpd>>
                ELSE IF u.kind \in ReplyCommands \/ (u.kind = "message" /\ u.text = "")
                THEN /\ last' = [NoOp EXCEPT !.op = "reply"]
                     /\ UNCHANGED <<mounted, cache, albums, tracks, mpd>>
                ELSE IF u.kind \in PlayerCommands
                THEN /\ last' = [NoOp EXCEPT !.op = u.kind, !.ok = connected]
                     /\ UNCHANGED <<mounted, cache, albums, tracks, mpd>>
                ELSE IF u.kind = "scan"
                THEN /\ ScanCall(FALSE, {NoTags})
                     /\ UNCHANGED <<cache, mpd>>
                ELSE IF u.kind = "message"
                THEN /\ search_albums(u.text, byId, dbOk)
                     /\ UNCHANGED <<mounted, cache, albums, tracks, mpd>>
                ELSE IF u.kind = "album" \/ ~dbOk \/ rows = {} \/ ~connected
                THEN /\ get_album_by_id(u.album_id, byId, dbOk)
                     /\ UNCHANGED <<mounted, cache, albums, tracks, mpd>>
                ELSE \E t \in rows :
                        \E c \in CopyOutcomes(IF t.file_path \in DOMAIN remote
                                               THEN remote[t.file_path] ELSE <<>>) :
                           /\ Cardinality(rows) = 1
                           /\ get_file_path(t.file_path, c, at)
                           /\ mpd' = IF last'.ret = None THEN <<>> ELSE <<last'.ret>>
                           /\ UNCHANGED <<albums, tracks>>

\* ---- specification of the bot ----

\* the process is in its loop; the list of authorized users is empty or
\* holds user 1; album A may be on the share
InitBot ==
    /\ cfg \in {[CACHE_ENABLED |-> TRUE, AUTHORIZED_USERS |-> U] : U \in {{}, {1}}}
    /\ netUp \in BOOLEAN
    /\ mounted \in BOOLEAN
    /\ netUp => mounted
    /\ remote \in {Empty, [p \in {<<"A", "1.flac">>} |-> File(1)]}
    /\ cache = Empty
    /\ albums = {}
    /\ tracks = {}
    /\ dbFile = TRUE
    /\ proc = Running
    /\ last = InitDone
    /\ mpd = <<>>

NextBot ==
    \/ Receive
    \/ Handle
    \/ NetworkChange
    \/ MountLost

SpecBot == InitBot /\ [][NextBot]_vars

\* ======================= the claims =======================

IsResolve(l) == l.op = "get_file_path"
IsSweep(l) == l.op = "clean_cache"
\* the files a sweep removed
Removed == DOMAIN last.before \ DOMAIN cache
\* the removed files accessed last among the removed
LastRemoved == {q \in Removed : \A r \in Removed : last.before[r].atime <= last.before[q].atime}

\* C1: with caching enabled, when a cache entry exists at P as get_file_path(P)
\* is called, it returns the cache path, runs no mount check and no mount or
\* umount command, reads nothing from the share and changes neither the
\* mount nor the cache, in every mount state.
C1_CacheHitShortCircuits ==
    [][(IsResolve(last') /\ cfg.CACHE_ENABLED /\ last'.path \in DOMAIN cache)
        => /\ last'.ret = CachePath(last'.path)
           /\ last'.log = <<>>
           /\ mounted' = mounted
           /\ cache' = cache]_vars

\* a hit was served while the share was not mounted
C1_Witness ==
    /\ IsResolve(last) /\ cfg.CACHE_ENABLED
    /\ last.ret = CachePath(last.path) /\ last.log = <<>>
    /\ ~mounted

\* C2 as stated: whenever P exists on the remote share, get_file_path(P)
\* returns a path.
C2_Original ==
    (IsResolve(last) /\ last.path \in DOMAIN remote) => last.ret # None

\* C2 amended: get_file_path(P) returns a path whenever P exists on the
\* remote share and the server answers (the share is mounted or the mount
\* attempt succeeds); it returns None only when P is not served from the
\* cache and the share cannot be mounted or read, or P is absent from it.
C2_Amended ==
    IsResolve(last) =>
       /\ (last.path \in DOMAIN remote /\ netUp) => last.ret # None
       /\ last.ret = None =>
             /\ ~(cfg.CACHE_ENABLED /\ last.path \in DOMAIN cache)
             /\ ~netUp \/ last.path \notin DOMAIN remote

\* the share had to be mounted by the call, and the file was found
C2_Witness ==
    /\ IsResolve(last) /\ last.path \in DOMAIN remote /\ netUp
    /\ last.ret = NetworkPath(last.path)
    /\ last.log = <<"is_mounted", "is_mounted", "mount", "is_mounted", "exists">>

\* C4: every file under the cache root is a byte-identical copy of the
\* remote file as it was when the copy was taken.
C4_CacheIsCopy ==
    \A p \in DOMAIN cache : cache[p].data = cache[p].src

\* C5: if the cache is larger than max when clean_cache starts and no call
\* in it raises, then on return the cache holds at most 0.8 x max, or no file.
C5_EvictionPostcondition ==
    (IsSweep(last) /\ ~last.err /\ SizeOf(last.before) * 10 > last.max)
       => \/ SizeOf(cache) * 100 <= last.max * 8
          \/ DOMAIN cache = {}

\* a sweep removed a file and kept another
C5_Witness ==
    /\ IsSweep(last) /\ ~last.err /\ SizeOf(last.before) * 10 > last.max
    /\ Removed # {} /\ DOMAIN cache # {}
    /\ SizeOf(cache) > 0

\* C6 as stated: the sweep stops as soon as the total is at most 0.8 x max:
\* before the last file was removed the total was still above 0.8 x max.
C6_Original ==
    (IsSweep(last) /\ ~last.err /\ SizeOf(last.before) * 10 > last.max)
       => \E q \in LastRemoved :
             (SizeOf(cache) + Len(last.before[q].data)) * 100 > last.max * 8

\* C6 amended: the sweep stops as soon as the total is strictly below
\* 0.8 x max: it ends below 0.8 x max or with no file left, and before the
\* last file was removed the total was 0.8 x max or more (a total of exactly
\* 0.8 x max costs one more file).
C6_Amended ==
    (IsSweep(last) /\ ~last.err /\ SizeOf(last.before) * 10 > last.max)
       => /\ SizeOf(cache) * 100 < last.max * 8 \/ DOMAIN cache = {}
          /\ \E q \in LastRemoved :
                (SizeOf(cache) + Len(last.before[q].data)) * 100 >= last.max * 8

\* a removal left exactly 0.8 x max and the next file was removed as well
C6_Witness ==
    /\ IsSweep(last) /\ ~last.err /\ SizeOf(last.before) * 10 > last.max
    /\ \E q \in LastRemoved :
          (SizeOf(cache) + Len(last.before[q].data)) * 100 = last.max * 8

\* C7: every file a sweep removed was accessed no later than every file it
\* kept, the kept files are untouched, and a cache within max loses no file.
C7_OldestFirst ==
    IsSweep(last) =>
       /\ \A q \in Removed, k \in DOMAIN cache :
             last.before[q].atime <= cache[k].atime
       /\ \A k \in DOMAIN cache : k \in DOMAIN last.before /\ cache[k] = last.before[k]
       /\ SizeOf(last.before) * 10 <= last.max => cache = last.before

\* a sweep removed the older file and kept the strictly newer one
C7_Witness ==
    /\ IsSweep(last) /\ Removed # {} /\ DOMAIN cache # {}
    /\ \E q \in Removed, k \in DOMAIN cache : last.before[q].atime < cache[k].atime

\* C9: with caching enabled, on a cache miss with the remote file visible
\* under the mounted share, get_file_path returns the cache path and the
\* cache holds the copy; if the copy raises it returns the mount-point path.
C9_CopyOrFallback ==
    [][(/\ IsResolve(last') /\ cfg.CACHE_ENABLED
        /\ last'.path \notin DOMAIN cache
        /\ mounted /\ netUp /\ last'.path \in DOMAIN remote)
        => \/ /\ ~last'.err
              /\ last'.ret = CachePath(last'.path)
              /\ last'.path \in DOMAIN cache'
              /\ cache'[last'.path].data = remote[last'.path]
           \/ /\ last'.err
              /\ last'.ret = NetworkPath(last'.path)]_vars

\* the copy failed and the call fell back to the network file
C9_Witness ==
    /\ IsResolve(last) /\ cfg.CACHE_ENABLED /\ last.err
    /\ last.ret = NetworkPath(last.path)

\* C10: for P neither in the cache nor on the share, get_file_path(P)
\* returns None and the cache is unchanged.
C10_AbsentEverywhere ==
    [][(/\ IsResolve(last')
        /\ last'.path \notin DOMAIN cache
        /\ last'.path \notin DOMAIN remote)
        => last'.ret = None /\ cache' = cache]_vars

\* the share was mounted and read, and the file was not there
C10_Witness ==
    /\ IsResolve(last) /\ last.ret = None
    /\ last.path \notin DOMAIN cache /\ last.path \notin DOMAIN remote
    /\ mounted /\ netUp /\ last.log = <<"is_mounted", "exists">>

IsScan(l) == l.op = "scan_library"

\* C3: every track row has the album_id of a row present in albums
\* (checked with a database that never fails: SpecScanNoFault).
C3_TracksReferenceAlbums ==
    \A t \in tracks : \E a \in albums : a.id = t.album_id

\* C8: a scan_library call that directly follows one that returned True with
\* no failed album directory, the share unchanged in between, leaves the
\* number of album rows and of track rows as they were, and no two album
\* rows share a directory and no two track rows a file_path.
C8_ScanIdempotent ==
    [][(IsScan(last) /\ last.ok /\ ~last.err /\ IsScan(last'))
        => /\ Cardinality(albums') = Cardinality(albums)
           /\ Cardinality(tracks') = Cardinality(tracks)
           /\ \A a, b \in albums' : a.directory = b.directory => a = b
           /\ \A t, u \in tracks' : t.file_path = u.file_path => t = u]_vars

\* a second scan in a row returned True and the tables hold rows it rewrote
C8_Witness ==
    /\ IsScan(last) /\ last.repeat /\ last.ok /\ ~last.err
    /\ \E a \in albums : a.id > 1
    /\ \E t \in tracks : t.id > 1 /\ \E a \in albums : a.id = t.album_id

\* C11: with caching disabled, get_file_path(P) for a file that exists on the
\* share and can be read there (the server answers) returns the mount-point
\* path of P and leaves the cache directory as it was, also when a file
\* sits at the cache path of P (checked in SpecDirect).
C11_DirectNoCopy ==
    [][(/\ IsResolve(last') /\ ~cfg.CACHE_ENABLED
        /\ netUp /\ last'.path \in DOMAIN remote)
        => /\ last'.ret = NetworkPath(last'.path)
           /\ cache' = cache]_vars

\* the network path was returned although the cache directory holds P
C11_Witness ==
    /\ IsResolve(last) /\ ~cfg.CACHE_ENABLED
    /\ last.ret = NetworkPath(last.path)
    /\ last.path \in DOMAIN cache
    /\ cache[last.path].data # remote[last.path]

IsSetup(l) == l.op = "setup"
IsCleanup(l) == l.op = "cleanup"
\* the operations that return what ensure_mounted returned
IsEnsure(l) == l.op \in {"__init__", "setup", "maintain"}

\* C12: a failed mount attempt never ends the host process, the mount check
\* of setup included (checked in SpecMain).
C12_MountNeverFatal ==
    (IsSetup(last) /\ ~last.ok) => proc.pc # "exited"

\* C13: when the process started with no file at DB_PATH and setup found the
\* share mounted, startup has run scan_library once when the maintenance
\* loop is entered (checked in SpecMain).
C13_FirstRunScan ==
    (proc.pc = "loop" /\ proc.noDb) => proc.scans = 1

\* C14: unmount_share returns True when the share is not mounted after the
\* call, and False when the umount command failed and the share is still
\* mounted (checked in SpecMain, on the unmount_share call of cleanup).
C14_UnmountResult ==
    (IsCleanup(last) /\ ~last.err) => (last.ok <=> ~mounted)

\* C15: ensure_mounted returns True exactly when the mount table lists the
\* share as it returns; on a listed share it runs the mount-table check only,
\* no mount or umount command, and leaves the mount as it is.
C15_EnsureMounted ==
    [][IsEnsure(last')
        => /\ last'.ok <=> mounted'
           /\ mounted => /\ last'.ok
                         /\ last'.log = <<"is_mounted">>
                         /\ mounted' = mounted]_vars

\* the maintenance loop called it on a listed share again: only the mount table was read
C15_Witness ==
    /\ last.op = "maintain" /\ last.ok /\ mounted
    /\ last.log = <<"is_mounted">>

\* the operations that reached mount_share
CalledMount(l) == IsEnsure(l) /\ Len(l.log) > 1

Audio(n) == \E i \in DOMAIN SUPPORTED_FORMATS : Ext(n) = SUPPORTED_FORMATS[i]
\* the audio files directly inside directory d
DirectAudio(tree, d) ==
    {f \in tree : Len(f) = Len(d) + 1 /\ SubSeq(f, 1, Len(d)) = d /\ Audio(f[Len(f)])}
TopDirs(tree) == {f[1] : f \in {g \in tree : Len(g) > 1}}
SubDirs(tree, D) == {f[2] : f \in {g \in tree : Len(g) > 2 /\ g[1] = D}}
\* the tree a scan ending in this state listed
SeenTree == Listable(mounted, netUp)
\* the album directories under top-level directory D among the rows in S
DirsUnder(S, D) == {a.directory : a \in {b \in S : b.directory[1] = D}}

\* C17: for every non-hidden top-level directory D with no audio file
\* directly inside, a scan writes exactly one album row per immediate
\* subdirectory of D that directly holds an audio file, keyed D/sub, and no
\* row for D itself or for a deeper directory (checked in SpecTree).
C17_ContainerHeuristic ==
    [][(IsScan(last') /\ last'.ok)
        => \A D \in TopDirs(SeenTree') :
              (~StartsWithDot(D) /\ DirectAudio(SeenTree', <<D>>) = {})
                 => /\ DirsUnder(albums' \ albums, D)
                        = {<<D, sub>> : sub \in {x \in SubDirs(SeenTree', D) :
                                                DirectAudio(SeenTree', <<D, x>>) # {}}}
                    /\ \A a, b \in albums' :
                          a.directory = b.directory => a = b]_vars

\* a scan made albums of both subdirectories of B, not of the directory
\* nested in B/C
C17_Witness ==
    /\ IsScan(last) /\ last.ok
    /\ <<"B", "C", "C", "1.flac">> \in SeenTree
    /\ DirsUnder(albums, "B") = {<<"B", "A">>, <<"B", "C">>}

\* C18: a non-hidden top-level directory that directly holds an audio file
\* gets exactly one album row, keyed by the directory, and none of its
\* subdirectories gets one; a top-level directory whose name starts with a
\* dot gets no album row and no track row (checked in SpecTree).
C18_AlbumAtTopLevel ==
    [][(IsScan(last') /\ last'.ok)
        => \A D \in TopDirs(SeenTree') :
              /\ (~StartsWithDot(D) /\ DirectAudio(SeenTree', <<D>>) # {})
                    => DirsUnder(albums' \ albums, D) = {<<D>>}
              /\ StartsWithDot(D)
                    => /\ DirsUnder(albums', D) = {}
                       /\ \A t \in tracks' : t.file_path[1] # D]_vars

\* a scan made one album of A, which has a subdirectory with an audio file,
\* and nothing of the hidden directory
C18_Witness ==
    /\ IsScan(last) /\ last.ok
    /\ {<<"A", "C", "1.flac">>, <<".Trash", "1.flac">>} \subseteq SeenTree
    /\ DirsUnder(albums, "A") = {<<"A">>}
    /\ \E t \in tracks : t.file_path = <<"A", "1.flac">>

\* the track row of file p
TrackOf(p) == CHOOSE t \in tracks : t.file_path = p

\* C19: when TinyTag.get raises on a track file, the scan still upserts its
\* track row, with title = the file name without its extension, artist = the
\* album's artist, track_number = 0, disc_number = 1 and duration = 0, and
\* scan_library returns True (checked in SpecTags).
C19_UnreadableTags ==
    IsScan(last) =>
       \A p \in DOMAIN last.tags :
          ~last.tags[p].readable
             => /\ last.ok
                /\ \E t \in tracks : t.file_path = p
                /\ TrackOf(p).title = Stem(p[Len(p)])
                /\ \E a \in albums : /\ a.id = TrackOf(p).album_id
                                     /\ a.artist = TrackOf(p).artist
                /\ TrackOf(p).track_number = 0
                /\ TrackOf(p).disc_number = 1
                /\ TrackOf(p).duration = 0

\* the second file of a tagged album was unreadable: its row carries the
\* album artist read from the first file
C19_Witness ==
    /\ IsScan(last) /\ last.ok
    /\ \E p \in DOMAIN last.tags :
          /\ ~last.tags[p].readable
          /\ \E t \in tracks : t.file_path = p /\ t.artist = "Various" /\ t.title = "2"

\* C20: every track row has disc_number >= 1 and track_number >= 0, whatever
\* the tags of the file (checked in SpecTags).
C20_TrackNumberRanges ==
    \A t \in tracks : t.disc_number >= 1 /\ t.track_number >= 0

\* the directories a scan of this tree hands to _process_album_directory and
\* finds music in
ExpectedAlbumDirs(tree) ==
    {<<D>> : D \in {x \in TopDirs(tree) :
                      ~StartsWithDot(x) /\ DirectAudio(tree, <<x>>) # {}}}
    \cup {d \in {<<f[1], f[2]>> : f \in {g \in tree : Len(g) > 2}} :
             /\ ~StartsWithDot(d[1])
             /\ DirectAudio(tree, <<d[1]>>) = {}
             /\ DirectAudio(tree, d) # {}}

\* C21: when processing an album directory raises, scan_library still
\* processes the other directories (their album row is written by this scan
\* and every music file of theirs has a track row of that album) and
\* returns True (checked in SpecScan).
C21_PartialFailure ==
    [][(IsScan(last') /\ last'.failed # {})
        => /\ last'.ok
           /\ \A d \in ExpectedAlbumDirs(SeenTree') \ last'.failed :
                 \E a \in albums' \ albums :
                    /\ a.directory = d
                    /\ \A f \in DirectAudio(SeenTree', d) :
                          \E t \in tracks' : t.file_path = f /\ t.album_id = a.id]_vars

\* the processing of A failed before its album row was written, and the
\* album and the track of B/C are there
C21_Witness ==
    /\ IsScan(last) /\ last.ok /\ last.failed = {<<"A">>}
    /\ albums # {} /\ \A a \in albums : a.directory = <<"B", "C">>
    /\ \E t \in tracks : t.file_path = <<"B", "C", "1.flac">>

\* C22: scan_library returns False exactly when the share cannot be mounted
\* as it starts or the database cannot be opened or committed, and then the
\* album and track rows are those from before the call (checked in SpecScan).
C22_ScanResult ==
    [][IsScan(last')
        => /\ last'.ok <=> /\ mounted \/ netUp
                           /\ \E i \in DOMAIN last'.log : last'.log[i] = "commit"
           /\ ~last'.ok => albums' = albums /\ tracks' = tracks]_vars

\* the database failed on a library that had rows: False, and the rows stay
C22_Witness ==
    /\ IsScan(last) /\ ~last.ok /\ last.err
    /\ mounted /\ albums # {} /\ tracks # {}

\* C26: no scan deletes an album: every directory that has a row keeps one,
\* and the row of a directory the scan does not see (gone from the share, or
\* the share not readable) stays as it is, id, directory, title and artist
\* (checked in SpecScan).
C26_NeverDeleted ==
    [][\A a \in albums :
          /\ \E b \in albums' : b.directory = a.directory
          /\ a.directory \notin ExpectedAlbumDirs(SeenTree') => a \in albums']_vars

\* a complete scan of a readable share has written a newer album, and the
\* older album, whose directory is gone from the share, is still there
C26_Witness ==
    /\ IsScan(last) /\ last.ok /\ ~last.err /\ mounted /\ netUp
    /\ \E a \in albums :
          /\ \A p \in DOMAIN remote : p[1] # a.directory[1]
          /\ \E b \in albums : b.id > a.id /\ b.directory \in ExpectedAlbumDirs(SeenTree)

\* C25: the cover_art a scan stores for an album is the album directory
\* joined with the first of cover.jpg, folder.jpg, album.jpg, front.jpg,
\* artwork.jpg that exists in the directory, and None when none of them
\* exists (checked in SpecCover).
C25_CoverArt ==
    [][IsScan(last')
        => \A a \in albums' \ albums :
              LET present == {i \in DOMAIN COVER_NAMES :
                                a.directory \o <<COVER_NAMES[i]>> \in SeenTree'}
              IN IF present = {} THEN a.cover_art = None
                 ELSE \E i \in present :
                         /\ \A j \in present : i <= j
                         /\ a.cover_art = <<a.directory \o <<COVER_NAMES[i]>> >>]_vars

\* folder.jpg and artwork.jpg are there and cover.jpg is not: folder.jpg is stored
C25_Witness ==
    /\ IsScan(last) /\ last.ok
    /\ {<<"A", "folder.jpg">>, <<"A", "artwork.jpg">>} \subseteq DOMAIN remote
    /\ <<"A", "cover.jpg">> \notin DOMAIN remote
    /\ \E a \in albums : a.cover_art = << <<"A", "folder.jpg">> >>

\* C28: get_file_path(P) removes no cache entry and alters none, and adds at
\* most the entry of P; nothing in it compares the cache with the maximum, so
\* resolves can leave the cache larger than CACHE_MAX_SIZE_GB.
C28_ResolveKeepsEntries ==
    [][IsResolve(last')
        => /\ \A q \in DOMAIN cache : q \in DOMAIN cache' /\ cache'[q] = cache[q]
           /\ DOMAIN cache' \subseteq DOMAIN cache \cup {last'.path}]_vars

\* a resolve has copied its file next to another entry, and the cache is
\* larger than the maximum
C28_Witness ==
    /\ IsResolve(last) /\ last.ret = CachePath(last.path)
    /\ \E i \in DOMAIN last.log : last.log[i] = "copy"
    /\ DOMAIN cache = Paths
    /\ OverLimit(SizeOf(cache), 10 * CACHE_MAX_SIZE_GB)

IsSearch(l) == l.op = "search_albums" /\ ~l.err
IsGetAlbum(l) == l.op = "get_album_by_id" /\ ~l.err

\* query is a substring of txt, letters compared in either case
Contains(query, txt) ==
    \E i \in 1..(Len(txt) - Len(query) + 1) :
       \A k \in 1..Len(query) : Lower(query[k]) = Lower(txt[i + k - 1])

\* the albums whose title or artist contains the query
Containing(query) ==
    {a \in albums : \/ Contains(Chars(query), Chars(a.title))
                    \/ Contains(Chars(query), Chars(a.artist))}

\* C23: search_albums(query) returns albums whose title or artist contains
\* the query as a substring in either case, and all of them when they are at
\* most 10, for every query, those with % or _ in them too (checked in
\* SpecSearch).
C23_SubstringMatch ==
    IsSearch(last)
    => /\ \A i \in DOMAIN last.found :
             \E a \in Containing(last.query) : a.id = last.found[i].id
       /\ Cardinality(Containing(last.query)) <= LIMIT
             => \A a \in Containing(last.query) :
                   \E i \in DOMAIN last.found : last.found[i].id = a.id

\* the key of ORDER BY disc_number, track_number, title does not decrease
KeyLeq(t, u) ==
    \/ t.disc_number < u.disc_number
    \/ /\ t.disc_number = u.disc_number
       /\ \/ t.track_number < u.track_number
          \/ /\ t.track_number = u.track_number
             /\ ~StrLess(u.title, t.title)

\* the album carries exactly the tracks of its id, each once, in key order
TracksInOrder(d) ==
    /\ {t.file_path : t \in {u \in tracks : u.album_id = d.id}}
          = {d.tracks[i].file_path : i \in DOMAIN d.tracks}
    /\ Len(d.tracks) = Cardinality({u \in tracks : u.album_id = d.id})
    /\ \A i, j \in DOMAIN d.tracks : i < j => KeyLeq(d.tracks[i], d.tracks[j])

\* C24: search_albums returns at most 10 albums, their titles ascending, and
\* each album it returns, like the album get_album_by_id returns, carries
\* exactly the tracks whose album_id is its id, ordered by disc number, track
\* number and title (checked in SpecSearch).
C24_Ordering ==
    /\ IsSearch(last)
         => /\ Len(last.found) <= LIMIT
            /\ \A i, j \in DOMAIN last.found :
                  i < j => ~StrLess(last.found[j].title, last.found[i].title)
            /\ \A i \in DOMAIN last.found : TracksInOrder(last.found[i])
    /\ IsGetAlbum(last)
         => /\ Len(last.found) <= 1
            /\ \A i \in DOMAIN last.found :
                  /\ last.found[i].id = last.album_id
                  /\ TracksInOrder(last.found[i])

\* more than 10 albums match and 10 are returned, among them album 1 with
\* its second track ahead of its first
C24_Witness ==
    /\ IsSearch(last) /\ Cardinality(albums) > LIMIT /\ Len(last.found) = LIMIT
    /\ \E i \in DOMAIN last.found :
          /\ Len(last.found[i].tracks) = 2
          /\ last.found[i].tracks[1].file_path = <<DirNames[1], "2.flac">>
          /\ last.found[i].tracks[1].disc_number < last.found[i].tracks[2].disc_number

IsList(l) == l.op \in {"list_directories", "list_files"}

\* the names of s, each once
NamesOf(s) == {s[i] : i \in DOMAIN s}
NoRepeat(s) == \A i, j \in DOMAIN s : s[i] = s[j] => i = j

\* the directories and the regular files directly under path on the share
DirsAt(path) ==
    {f[Len(path) + 1] : f \in {g \in DOMAIN remote :
        Len(g) > Len(path) + 1 /\ SubSeq(g, 1, Len(path)) = path}}
FilesAt(path) ==
    {f[Len(path) + 1] : f \in {g \in DOMAIN remote :
        Len(g) = Len(path) + 1 /\ SubSeq(g, 1, Len(path)) = path}}

\* the name ends in the extension, in either case
EndsWith(n, ext) == ext = ".flac" /\ n \in {"1.flac", "2.flac", "3.FLAC"}

\* C27: list_directories(path) and list_files(path, pattern) return the empty
\* list when the share cannot be mounted or the listing fails (the server is
\* gone behind the mount, there is no directory at path, an I/O error);
\* otherwise they return each directory, or each regular file whose name
\* matches the pattern in either case, directly under path, once (checked in
\* SpecList).
C27_Listings ==
    [][IsList(last')
        => /\ (~netUp \/ ~last'.ok \/ last'.err) => last'.names = <<>>
           /\ (netUp /\ last'.ok /\ ~last'.err)
                => /\ NoRepeat(last'.names)
                   /\ NamesOf(last'.names)
                        = IF last'.op = "list_directories" THEN DirsAt(last'.path)
                          ELSE IF last'.pattern = None THEN FilesAt(last'.path)
                          ELSE {n \in FilesAt(last'.path) :
                                  EndsWith(n, last'.pattern[1])}]_vars

\* list_files("A", the pattern of .flac) returned 1.flac and 3.FLAC,
\* not cover.jpg
C27_Witness ==
    /\ last.op = "list_files" /\ last.path = <<"A">> /\ last.pattern = <<".flac">>
    /\ NamesOf(last.names) = {"1.flac", "3.FLAC"}
    /\ <<"A", "cover.jpg">> \in DOMAIN remote

IsMaintain(l) == l.op = "maintain"

\* C29: nothing keeps the sweep of the maintenance loop from a file that
\* get_file_path has handed to the player: when the cache is over the limit,
\* the file accessed longest ago is removed, in the playlist or not, so the
\* state of C29_Witness is reached (checked in SpecPlay).
C29_SweepIgnoresPlaylist ==
    [][(IsMaintain(last') /\ cfg.CACHE_ENABLED /\ ~last'.err
          /\ OverLimit(SizeOf(cache), 10 * CACHE_MAX_SIZE_GB))
        => \A p \in DOMAIN cache :
              (\A q \in DOMAIN cache \ {p} : cache[p].atime < cache[q].atime)
                 => p \notin DOMAIN cache']_vars

\* play_album got the cache path of a complete copy from get_file_path and
\* queued it; the sweep has removed the file and the player has not read it
C29_Witness ==
    /\ IsMaintain(last)
    /\ \E p \in Paths :
          /\ mpd = <<CachePath(p)>>
          /\ p \in DOMAIN last.before /\ last.before[p].data = remote[p]
          /\ p \notin DOMAIN cache
          /\ ~Readable(mpd[1])

\* C30: an iteration of the maintenance loop sweeps the cache when caching
\* is enabled (afterwards the cache is not over the limit, unless an os call
\* failed) and leaves it alone when not, then runs the mount check, which
\* mounts the share when the mount command succeeds; so, the loop running,
\* an unmounted share that can be mounted gets mounted (checked in
\* SpecPlayFair).
C30_MaintenanceLoop ==
    /\ [][IsMaintain(last')
           => /\ last'.log # <<>> /\ last'.log[1] = "is_mounted"
              /\ netUp => mounted'
              /\ (cfg.CACHE_ENABLED /\ ~last'.err)
                   => ~OverLimit(SizeOf(cache'), 10 * CACHE_MAX_SIZE_GB)
              /\ ~cfg.CACHE_ENABLED => cache' = cache]_vars
    /\ (proc.pc = "loop" /\ ~mounted /\ netUp)
          ~> (mounted \/ ~netUp \/ proc.pc # "loop")

\* an iteration found the share unmounted and the cache over the limit, and
\* has mounted the one and emptied the other
C30_Witness ==
    /\ IsMaintain(last) /\ mounted /\ netUp
    /\ \E i \in DOMAIN last.log : last.log[i] = "mount"
    /\ OverLimit(SizeOf(last.before), 10 * CACHE_MAX_SIZE_GB)
    /\ ~OverLimit(SizeOf(cache), 10 * CACHE_MAX_SIZE_GB)

\* C31: an album that search_albums or get_album_by_id has just returned
\* with id i is, after a scan_library call on the same remote tree, still
\* the row of id i, with the same directory and the same tracks (checked in
\* SpecRescan, where the share never changes).
C31_StableIds ==
    [][((IsSearch(last) \/ IsGetAlbum(last)) /\ IsScan(last'))
        => \A k \in DOMAIN last.found :
              \E b \in albums' :
                 /\ b.id = last.found[k].id
                 /\ b.directory = last.found[k].directory
                 /\ {t.file_path : t \in {u \in tracks' : u.album_id = b.id}}
                      = {last.found[k].tracks[j].file_path :
                            j \in DOMAIN last.found[k].tracks}]_vars

\* C32: cleanup calls telegram_bot.stop, audio_player.disconnect and
\* unmount_share in this order, and unmount_share is entered (it reads the
\* mount table) in every cleanup, whatever happened in the two calls before
\* it (checked in SpecMain).
C32_CleanupUnmounts ==
    IsCleanup(last)
    => /\ Len(last.log) >= 3
       /\ SubSeq(last.log, 1, 3) = <<"stop", "disconnect", "is_mounted">>

\* the operations of MusicLibrary and AudioPlayer that a handler calls
LibraryAndPlayerOps ==
    {"scan_library", "search_albums", "get_album_by_id", "get_file_path"}
    \cup {"play", "pause", "stop", "next", "prev", "volume", "status"}

\* a handler has run on the pending update
Handled == proc.update # <<>> /\ proc'.update = <<>>

\* C33: with a non-empty AUTHORIZED_USERS, the handler of an update from a
\* user who is not in it calls no MusicLibrary or AudioPlayer operation and
\* changes nothing; with an empty list the handler of every user's command
\* calls its operation (checked in SpecBot).
C33_Authorization ==
    [][Handled
        => LET u == proc.update[1]
           IN /\ (cfg.AUTHORIZED_USERS # {} /\ u.user \notin cfg.AUTHORIZED_USERS)
                   => /\ last'.op \notin LibraryAndPlayerOps
                      /\ UNCHANGED <<mounted, cache, albums, tracks, mpd>>
              /\ (cfg.AUTHORIZED_USERS = {} \/ u.user \in cfg.AUTHORIZED_USERS)
                   => /\ u.kind \in PlayerCommands => last'.op = u.kind
                      /\ u.kind = "scan" => IsScan(last')
                      /\ (u.kind = "message" /\ u.text # "")
                            => last'.op = "search_albums"
                      /\ u.kind \in {"album", "play_album"}
                            => last'.op \in {"get_album_by_id", "get_file_path"}]_vars

\* the update of a user who is not in the list was turned away, on a
\* readable share whose album no scan has stored
C33_Witness ==
    /\ last.op = "unauthorized" /\ cfg.AUTHORIZED_USERS = {1}
    /\ mounted /\ netUp /\ DOMAIN remote # {}
    /\ albums = {} /\ proc.update = <<>>

====
